---- MODULE Spec2Model ----
(***************************************************************************)
(* Model of scripts/import_data.py: SupplyChainImporter.run and the four   *)
(* loaders (customers, products, orders, shipping) against a PostgreSQL    *)
(* connection opened with psycopg2 (no autocommit).                        *)
(*                                                                         *)
(* Text values are sequences of one-character strings so that strip() and  *)
(* int() are computed, not assumed.  The pandas absence marker is NaN.     *)
(* Python's None / an int is an option: <<>> is None, <<k>> is the int k.  *)
(* Row positions are 1..Len(df) (the DataFrame index, shifted by one).     *)
(***************************************************************************)
EXTENDS Integers, Sequences, FiniteSets, TLC

\* ---- bounds of the model ----
MaxRows == 3
MaxBatch == 2
MaxKeyBase == 1

\* ---- program constant: commit cadence of import_customers ----
CustomerCommitEvery == 1000

\* ---- scalar values ----
NaN == <<"NaN">>

IsNa(v) == v = NaN

NanText == <<"n", "a", "n">>

\* str(value) / Series.astype(str): the absence marker becomes the text 'nan'
Str(v) == IF IsNa(v) THEN NanText ELSE v

RECURSIVE LStrip(_)
LStrip(s) == IF s # <<>> /\ Head(s) = " " THEN LStrip(Tail(s)) ELSE s

RECURSIVE RStrip(_)
RStrip(s) == IF s # <<>> /\ s[Len(s)] = " " THEN RStrip(SubSeq(s, 1, Len(s) - 1)) ELSE s

\* str.strip()
Strip(s) == RStrip(LStrip(s))

DigitValue == ("0" :> 0) @@ ("1" :> 1) @@ ("2" :> 2) @@ ("3" :> 3) @@ ("4" :> 4) @@
              ("5" :> 5) @@ ("6" :> 6) @@ ("7" :> 7) @@ ("8" :> 8) @@ ("9" :> 9)

\* int(value) succeeds (no ValueError)
IntParses(s) == s # <<>> /\ \A i \in 1..Len(s) : s[i] \in DOMAIN DigitValue

RECURSIVE IntOf(_)
IntOf(s) == IF s = <<>> THEN 0 ELSE 10 * IntOf(SubSeq(s, 1, Len(s) - 1)) + DigitValue[s[Len(s)]]

\* code points of the characters used, for the sort order of groupby keys
Ord == (" " :> 32) @@ ("1" :> 49) @@ ("2" :> 50) @@ ("N" :> 78) @@ ("V" :> 86) @@
       ("W" :> 87) @@ ("a" :> 97) @@ ("b" :> 98) @@ ("c" :> 99) @@ ("e" :> 101) @@
       ("n" :> 110)

RECURSIVE TextLess(_, _)
TextLess(a, b) ==
    IF b = <<>> THEN FALSE
    ELSE IF a = <<>> THEN TRUE
    ELSE IF Head(a) # Head(b) THEN Ord[Head(a)] < Ord[Head(b)]
    ELSE TextLess(Tail(a), Tail(b))

RECURSIVE SortedKeys(_)
SortedKeys(S) ==
    IF S = {} THEN <<>>
    ELSE LET m == CHOOSE x \in S : \A y \in S \ {x} : TextLess(x, y)
         IN <<m>> \o SortedKeys(S \ {m})

\* ---- the source rows ----
Row(c, p, e) == [cid |-> c, pname |-> p, email |-> e]

RowDomain ==
    { Row(<<"1">>, <<"W">>, NaN),
      Row(<<"1">>, <<" ", "W">>, <<"e", "1">>),
      Row(<<"2">>, <<"V">>, <<"e", "2">>),
      Row(NaN, <<" ">>, <<"e", "1">>),
      Row(<<"2">>, NaN, NaN),
      Row(<<"2">>, <<" ", "n", "a", "n">>, <<"e", "2">>),
      Row(<<"a", "b", "c">>, <<"V">>, <<"e", "1">>) }

RowSeqs == UNION { [1..n -> RowDomain] : n \in 0..MaxRows }

\* ---- dictionaries ----
EmptyMap == [x \in {} |-> 0]

Put(map, k, v) == [x \in DOMAIN map \cup {k} |-> IF x = k THEN v ELSE map[x]]

\* dict.get(key) with an optional key: None when the key is None or absent
Get(map, optkey) ==
    IF optkey # <<>> /\ optkey[1] \in DOMAIN map THEN <<map[optkey[1]]>> ELSE <<>>

\* Python truthiness of an Optional[int]: None and 0 are falsy
Truthy(opt) == opt # <<>> /\ opt[1] # 0

\* ---- groupby(key).first() ----
\* first non-null entry of a column within a group (pandas skips NA in first())
FirstNonNull(vals) ==
    IF \E i \in 1..Len(vals) : ~IsNa(vals[i])
    THEN LET i == CHOOSE j \in 1..Len(vals) :
                     ~IsNa(vals[j]) /\ \A k \in 1..(j - 1) : IsNa(vals[k])
         IN vals[i]
    ELSE NaN

RECURSIVE ColumnOf(_, _)
ColumnOf(rows, col) ==
    IF rows = <<>> THEN <<>> ELSE <<Head(rows)[col]>> \o ColumnOf(Tail(rows), col)

HasCid(r) == ~IsNa(r.cid)

\* customers[customers['Customer Id'].notna()].groupby('Customer Id').first()
CustomersUnique(rows) ==
    LET customers == SelectSeq(rows, HasCid)
        keys == SortedKeys({ customers[i].cid : i \in 1..Len(customers) })
    IN [n \in 1..Len(keys) |->
          LET k == keys[n]
              InGroup(r) == r.cid = k
              grp == SelectSeq(customers, InGroup)
          IN [cid |-> k, email |-> FirstNonNull(ColumnOf(grp, "email"))]]

\* variant: the filter forgets the textual placeholder
ProductNameKeptNoNan(name) == name # <<>>

\* the product filter after astype(str).str.strip()
ProductNameKept(name) == name # NanText /\ name # <<>>

ProductsUnique(rows) ==
    LET names == { Strip(Str(rows[i].pname)) : i \in 1..Len(rows) }
    IN SortedKeys({ n \in names : ProductNameKept(n) })

\* ---- the sink: one PostgreSQL connection, psycopg2 default (transactional) mode ----
\* committed/pending: rows [tbl, key, refs]; failed: the open transaction is aborted
RefTables(tbl) ==
    IF tbl = "orders" THEN <<"customers", "products">>
    ELSE IF tbl = "shipping_details" THEN <<"orders">>
    ELSE <<>>

RowExists(rowset, tbl, key) == \E r \in rowset : r.tbl = tbl /\ r.key = key

\* a statement can succeed only in a transaction that is not aborted, and only if
\* every non-null foreign key names a row visible to the transaction
DbMayAccept(d, tbl, refs) ==
    /\ ~d.failed
    /\ \A i \in 1..Len(refs) :
          refs[i] = <<>> \/ RowExists(d.committed \cup d.pending, RefTables(tbl)[i], refs[i][1])

\* cursor.execute(INSERT ... RETURNING id) succeeded: the row is pending, the key returned
DbAccept(d, tbl, refs) ==
    [d EXCEPT !.pending = @ \cup {[tbl |-> tbl, key |-> d.nextKey[tbl], refs |-> refs]},
              !.nextKey[tbl] = @ + 1]

\* cursor.execute raised psycopg2.Error: the open transaction is aborted
DbReject(d) == [d EXCEPT !.failed = TRUE]

\* conn.commit(): COMMIT of an aborted transaction is a ROLLBACK
DbCommit(d) ==
    [d EXCEPT !.committed = IF d.failed THEN @ ELSE @ \cup d.pending,
              !.pending = {},
              !.failed = FALSE]

\* conn.rollback()
DbRollback(d) == [d EXCEPT !.pending = {}, !.failed = FALSE]

\* ---- state ----
VARIABLES
    df,               \* self.df: the source rows, <<>> before load_csv
    batch_size,       \* self.config['batch_size']
    call,             \* the method run() is executing (or the terminal state)
    at,               \* position inside it: entry, loop, check, raised, end
    idx,              \* position of the loop of the current loader
    customers_unique, \* import_customers: the deduplicated frame
    products_unique,  \* import_products: the deduplicated names
    customer_map, product_map, order_map,
    returned,         \* which maps run() has received
    imported,         \* import_customers / import_products: imported
    processed,        \* import_orders / import_shipping: processed
    skipped,          \* import_orders: skipped
    ship_skipped,     \* import_shipping: skipped
    customer_id, product_id,   \* import_orders: the two lookup results of the row
    db,               \* the sink
    lastInsert,       \* the most recent INSERT issued: table, parameters, row position
    phaseLog,         \* the methods run() has entered, in order
    tally,            \* import_orders: the branch each handled row position took
    lookups           \* import_orders: row positions for which each map.get was called

vars == <<df, batch_size, call, at, idx, customers_unique, products_unique,
          customer_map, product_map, order_map, returned, imported, processed,
          skipped, ship_skipped, customer_id, product_id, db, lastInsert,
          phaseLog, tally, lookups>>

loaderVars == <<customers_unique, products_unique, customer_map, product_map, order_map,
                returned, imported, processed, skipped, ship_skipped, customer_id,
                product_id, tally, lookups>>

Tables == {"customers", "products", "orders", "shipping_details"}

NoInsert == [tbl |-> "none", refs |-> <<>>, pos |-> 0]

Init ==
    /\ df = <<>>
    /\ batch_size \in 1..MaxBatch
    /\ call = "connect_database"
    /\ at = "entry"
    /\ idx = 1
    /\ customers_unique = <<>>
    /\ products_unique = <<>>
    /\ customer_map = EmptyMap
    /\ product_map = EmptyMap
    /\ order_map = EmptyMap
    /\ returned = {}
    /\ imported = 0
    /\ processed = 0
    /\ skipped = [no_customer |-> 0, no_product |-> 0, error |-> 0]
    /\ ship_skipped = 0
    /\ customer_id = <<>>
    /\ product_id = <<>>
    /\ \E base \in 0..MaxKeyBase :
          db = [committed |-> {}, pending |-> {}, failed |-> FALSE,
                nextKey |-> [t \in Tables |-> base]]
    /\ lastInsert = NoInsert
    /\ phaseLog = <<>>
    /\ tally = EmptyMap
    /\ lookups = [customer |-> {}, product |-> {}]

\* variant: import_orders is followed by a second import_customers
RunNextRetry(c) ==
    CASE c = "connect_database" -> "load_csv"
      [] c = "load_csv"         -> "import_customers"
      [] c = "import_customers" -> "import_products"
      [] c = "import_products"  -> "import_orders"
      [] c = "import_orders"    -> IF "order_map" \in returned THEN "import_shipping"
                                   ELSE "import_customers"
      [] c = "import_shipping"  -> "verify_import"
      [] OTHER                  -> "closed"

\* ---- run(): the call sequence ----
RunNext(c) ==
    CASE c = "connect_database" -> "load_csv"
      [] c = "load_csv"         -> "import_customers"
      [] c = "import_customers" -> "import_products"
      [] c = "import_products"  -> "import_orders"
      [] c = "import_orders"    -> "import_shipping"
      [] c = "import_shipping"  -> "verify_import"
      [] OTHER                  -> "closed"

\* connect_database: success, or sys.exit(1) (SystemExit passes `except Exception`)
ConnectDatabase ==
    /\ call = "connect_database" /\ at = "entry"
    /\ phaseLog' = Append(phaseLog, call)
    /\ \/ call' = RunNext(call)
       \/ call' = "exited"
    /\ UNCHANGED <<df, batch_size, at, idx, db, lastInsert>>
    /\ UNCHANGED loaderVars

\* load_csv: the frame is read, or sys.exit(1); the finally clause closes the connection
LoadCsv ==
    /\ call = "load_csv" /\ at = "entry"
    /\ phaseLog' = Append(phaseLog, call)
    /\ \/ \E rows \in RowSeqs : df' = rows /\ call' = RunNext(call)
       \/ df' = df /\ call' = "exited"
    /\ UNCHANGED <<batch_size, at, idx, db, lastInsert>>
    /\ UNCHANGED loaderVars

\* ---- helpers of the loaders ----
\* `if count % size == 0` guarding a mid-pass conn.commit()
BatchDue(count, size) == count % size = 0

\* the sink after a successful insert followed by the batch test of the loop body
AfterInsert(d, tbl, refs, count, size) ==
    IF BatchDue(count, size) THEN DbCommit(DbAccept(d, tbl, refs)) ELSE DbAccept(d, tbl, refs)

\* variant: a rejected insert is not tallied
BumpNoError(s, reason) == IF reason = "error" THEN s ELSE [s EXCEPT ![reason] = @ + 1]

\* skipped[reason] += 1
Bump(s, reason) == [s EXCEPT ![reason] = @ + 1]

\* variant: the product test comes first
OrderDecisionProductFirst(cust, prod) ==
    IF ~Truthy(prod) THEN "no_product"
    ELSE IF ~Truthy(cust) THEN "no_customer"
    ELSE "insert"

\* import_orders: the two `if not ...: continue` tests, in source order
OrderDecision(cust, prod) ==
    IF ~Truthy(cust) THEN "no_customer"
    ELSE IF ~Truthy(prod) THEN "no_product"
    ELSE "insert"

\* variant: the shipping loop does not test the looked-up order key
ShippingResolvesAlways(order_id) == TRUE

\* import_shipping: `if not order_id` is false
ShippingResolves(order_id) == Truthy(order_id)

\* import_orders: int(row['Customer Id']) if pd.notna(...) else None
SourceCustomerId(row) == IF IsNa(row.cid) THEN <<>> ELSE <<IntOf(row.cid)>>

\* import_orders: str(row.get('Product Name', '')).strip() if pd.notna(...) else None
ProductName(row) == IF IsNa(row.pname) THEN <<>> ELSE <<Strip(Str(row.pname))>>

\* ---- import_customers ----
BeginCustomers ==
    /\ call = "import_customers" /\ at = "entry"
    /\ phaseLog' = Append(phaseLog, call)
    /\ customers_unique' = CustomersUnique(df)
    /\ customer_map' = EmptyMap
    /\ imported' = 0
    /\ idx' = 1
    /\ at' = "loop"
    /\ UNCHANGED <<df, batch_size, call, products_unique, product_map, order_map, returned,
                   processed, skipped, ship_skipped, customer_id, product_id, db,
                   lastInsert, tally, lookups>>

\* one iteration of `for _, row in customers_unique.iterrows()`
CustomerRow ==
    /\ call = "import_customers" /\ at = "loop" /\ idx <= Len(customers_unique)
    /\ idx' = idx + 1
    /\ LET row == customers_unique[idx] IN
       \/ \* int(row['Customer Id']) raises; `except Exception: continue`
          /\ ~IntParses(row.cid)
          /\ UNCHANGED <<customer_map, imported, db, lastInsert>>
       \/ \* the insert returns the generated key
          /\ IntParses(row.cid)
          /\ DbMayAccept(db, "customers", <<>>)
          /\ customer_map' = Put(customer_map, IntOf(row.cid), db.nextKey["customers"])
          /\ imported' = imported + 1
          /\ db' = AfterInsert(db, "customers", <<>>, imported + 1, CustomerCommitEvery)
          /\ lastInsert' = [tbl |-> "customers", refs |-> <<>>, pos |-> idx]
       \/ \* the insert raises; `except Exception: continue`
          /\ IntParses(row.cid)
          /\ db' = DbReject(db)
          /\ lastInsert' = [tbl |-> "customers", refs |-> <<>>, pos |-> idx]
          /\ UNCHANGED <<customer_map, imported>>
    /\ UNCHANGED <<df, batch_size, call, at, customers_unique, products_unique, product_map,
                   order_map, returned, processed, skipped, ship_skipped, customer_id,
                   product_id, phaseLog, tally, lookups>>

\* the final conn.commit() and `return customer_map`
EndCustomers ==
    /\ call = "import_customers" /\ at = "loop" /\ idx > Len(customers_unique)
    /\ db' = DbCommit(db)
    /\ returned' = returned \cup {"customer_map"}
    /\ call' = RunNext(call)
    /\ at' = "entry"
    /\ UNCHANGED <<df, batch_size, idx, customers_unique, products_unique, customer_map,
                   product_map, order_map, imported, processed, skipped, ship_skipped,
                   customer_id, product_id, lastInsert, phaseLog, tally, lookups>>

\* ---- import_products ----
BeginProducts ==
    /\ call = "import_products" /\ at = "entry"
    /\ phaseLog' = Append(phaseLog, call)
    /\ products_unique' = ProductsUnique(df)
    /\ product_map' = EmptyMap
    /\ imported' = 0
    /\ idx' = 1
    /\ at' = "loop"
    /\ UNCHANGED <<df, batch_size, call, customers_unique, customer_map, order_map, returned,
                   processed, skipped, ship_skipped, customer_id, product_id, db,
                   lastInsert, tally, lookups>>

\* one iteration of `for _, row in products_unique.iterrows()` (no mid-pass commit)
ProductRow ==
    /\ call = "import_products" /\ at = "loop" /\ idx <= Len(products_unique)
    /\ idx' = idx + 1
    /\ lastInsert' = [tbl |-> "products", refs |-> <<>>, pos |-> idx]
    /\ LET product_name == Strip(Str(products_unique[idx])) IN
       \/ /\ DbMayAccept(db, "products", <<>>)
          /\ product_map' = Put(product_map, product_name, db.nextKey["products"])
          /\ imported' = imported + 1
          /\ db' = DbAccept(db, "products", <<>>)
       \/ /\ db' = DbReject(db)
          /\ UNCHANGED <<product_map, imported>>
    /\ UNCHANGED <<df, batch_size, call, at, customers_unique, products_unique, customer_map,
                   order_map, returned, processed, skipped, ship_skipped, customer_id,
                   product_id, phaseLog, tally, lookups>>

EndProducts ==
    /\ call = "import_products" /\ at = "loop" /\ idx > Len(products_unique)
    /\ db' = DbCommit(db)
    /\ returned' = returned \cup {"product_map"}
    /\ call' = RunNext(call)
    /\ at' = "entry"
    /\ UNCHANGED <<df, batch_size, idx, customers_unique, products_unique, customer_map,
                   product_map, order_map, imported, processed, skipped, ship_skipped,
                   customer_id, product_id, lastInsert, phaseLog, tally, lookups>>

\* ---- import_orders ----
BeginOrders ==
    /\ call = "import_orders" /\ at = "entry"
    /\ phaseLog' = Append(phaseLog, call)
    /\ order_map' = EmptyMap
    /\ processed' = 0
    /\ skipped' = [no_customer |-> 0, no_product |-> 0, error |-> 0]
    /\ idx' = 1
    /\ at' = "loop"
    /\ UNCHANGED <<df, batch_size, call, customers_unique, products_unique, customer_map,
                   product_map, returned, imported, ship_skipped, customer_id, product_id,
                   db, lastInsert, tally, lookups>>

\* the head of one iteration: the two key extractions and the two map.get calls
OrderLookup ==
    /\ call = "import_orders" /\ at = "loop" /\ idx <= Len(df)
    /\ LET row == df[idx] IN
       \/ \* int(row['Customer Id']) raises ValueError, outside any try of the loader
          /\ ~IsNa(row.cid) /\ ~IntParses(row.cid)
          /\ at' = "raised"
          /\ UNCHANGED <<customer_id, product_id, lookups>>
       \/ /\ IsNa(row.cid) \/ IntParses(row.cid)
          /\ customer_id' = Get(customer_map, SourceCustomerId(row))
          /\ product_id' = Get(product_map, ProductName(row))
          /\ lookups' = [customer |-> lookups.customer \cup {idx},
                         product |-> lookups.product \cup {idx}]
          /\ at' = "check"
    /\ UNCHANGED <<df, batch_size, call, idx, customers_unique, products_unique, customer_map,
                   product_map, order_map, returned, imported, processed, skipped,
                   ship_skipped, db, lastInsert, phaseLog, tally>>

\* the rest of the iteration: the two tests, the insert, the batch commit
OrderRow ==
    /\ call = "import_orders" /\ at = "check"
    /\ idx' = idx + 1
    /\ at' = "loop"
    /\ LET decision == OrderDecision(customer_id, product_id)
           refs == <<customer_id, product_id>>
       IN
       \/ /\ decision # "insert"
          /\ skipped' = Bump(skipped, decision)
          /\ tally' = Put(tally, idx, decision)
          /\ UNCHANGED <<order_map, processed, db, lastInsert>>
       \/ /\ decision = "insert"
          /\ DbMayAccept(db, "orders", refs)
          /\ order_map' = Put(order_map, idx, db.nextKey["orders"])
          /\ processed' = processed + 1
          /\ db' = AfterInsert(db, "orders", refs, processed + 1, batch_size)
          /\ lastInsert' = [tbl |-> "orders", refs |-> refs, pos |-> idx]
          /\ tally' = Put(tally, idx, "inserted")
          /\ UNCHANGED skipped
       \/ /\ decision = "insert"
          /\ db' = DbReject(db)
          /\ skipped' = Bump(skipped, "error")
          /\ lastInsert' = [tbl |-> "orders", refs |-> refs, pos |-> idx]
          /\ tally' = Put(tally, idx, "error")
          /\ UNCHANGED <<order_map, processed>>
    /\ UNCHANGED <<df, batch_size, call, customers_unique, products_unique, customer_map,
                   product_map, returned, imported, ship_skipped, customer_id, product_id,
                   phaseLog, lookups>>

EndOrders ==
    /\ call = "import_orders" /\ at = "loop" /\ idx > Len(df)
    /\ db' = DbCommit(db)
    /\ returned' = returned \cup {"order_map"}
    /\ call' = RunNext(call)
    /\ at' = "entry"
    /\ UNCHANGED <<df, batch_size, idx, customers_unique, products_unique, customer_map,
                   product_map, order_map, imported, processed, skipped, ship_skipped,
                   customer_id, product_id, lastInsert, phaseLog, tally, lookups>>

\* ---- import_shipping ----
BeginShipping ==
    /\ call = "import_shipping" /\ at = "entry"
    /\ phaseLog' = Append(phaseLog, call)
    /\ processed' = 0
    /\ ship_skipped' = 0
    /\ idx' = 1
    /\ at' = "loop"
    /\ UNCHANGED <<df, batch_size, call, customers_unique, products_unique, customer_map,
                   product_map, order_map, returned, imported, skipped, customer_id,
                   product_id, db, lastInsert, tally, lookups>>

\* one iteration of the shipping loop
ShippingRow ==
    /\ call = "import_shipping" /\ at = "loop" /\ idx <= Len(df)
    /\ idx' = idx + 1
    /\ LET order_id == Get(order_map, <<idx>>)
           refs == <<order_id>>
       IN
       \/ /\ ~ShippingResolves(order_id)
          /\ ship_skipped' = ship_skipped + 1
          /\ UNCHANGED <<processed, db, lastInsert>>
       \/ /\ ShippingResolves(order_id)
          /\ DbMayAccept(db, "shipping_details", refs)
          /\ processed' = processed + 1
          /\ db' = AfterInsert(db, "shipping_details", refs, processed + 1, batch_size)
          /\ lastInsert' = [tbl |-> "shipping_details", refs |-> refs, pos |-> idx]
          /\ UNCHANGED ship_skipped
       \/ /\ ShippingResolves(order_id)
          /\ db' = DbReject(db)
          /\ ship_skipped' = ship_skipped + 1
          /\ lastInsert' = [tbl |-> "shipping_details", refs |-> refs, pos |-> idx]
          /\ UNCHANGED processed
    /\ UNCHANGED <<df, batch_size, call, at, customers_unique, products_unique, customer_map,
                   product_map, order_map, returned, imported, skipped, customer_id,
                   product_id, phaseLog, tally, lookups>>

EndShipping ==
    /\ call = "import_shipping" /\ at = "loop" /\ idx > Len(df)
    /\ db' = DbCommit(db)
    /\ call' = RunNext(call)
    /\ at' = "entry"
    /\ UNCHANGED <<df, batch_size, idx, customers_unique, products_unique, customer_map,
                   product_map, order_map, returned, imported, processed, skipped,
                   ship_skipped, customer_id, product_id, lastInsert, phaseLog, tally,
                   lookups>>

\* ---- the tail of run() ----
\* verify_import (read-only queries); the finally clause closes the connection, which
\* discards whatever transaction is open
VerifyImport ==
    /\ call = "verify_import" /\ at = "entry"
    /\ phaseLog' = Append(phaseLog, call)
    /\ db' = DbRollback(db)
    /\ call' = RunNext(call)
    /\ UNCHANGED <<df, batch_size, at, idx, lastInsert>>
    /\ UNCHANGED loaderVars

\* `except Exception`: conn.rollback(), then the finally clause closes the connection
RunExcept ==
    /\ at = "raised"
    /\ db' = DbRollback(db)
    /\ call' = "closed"
    /\ at' = "end"
    /\ UNCHANGED <<df, batch_size, idx, lastInsert, phaseLog>>
    /\ UNCHANGED loaderVars

Next ==
    \/ ConnectDatabase \/ LoadCsv
    \/ BeginCustomers \/ CustomerRow \/ EndCustomers
    \/ BeginProducts \/ ProductRow \/ EndProducts
    \/ BeginOrders \/ OrderLookup \/ OrderRow \/ EndOrders
    \/ BeginShipping \/ ShippingRow \/ EndShipping
    \/ VerifyImport \/ RunExcept

Spec == Init /\ [][Next]_vars

\* ---- properties ----
SkipTotal == skipped.no_customer + skipped.no_product + skipped.error

InOrderPass == call = "import_orders" /\ at \in {"loop", "check"}

OrdersReturned == "order_map" \in returned

CustomerResolves(row) ==
    SourceCustomerId(row) # <<>> /\ SourceCustomerId(row)[1] \in DOMAIN customer_map

ProductResolves(row) ==
    ProductName(row) # <<>> /\ ProductName(row)[1] \in DOMAIN product_map

\* absent, blank after trimming, or the placeholder text
UnusableName(v) == IsNa(v) \/ Strip(v) = <<>> \/ Strip(v) = NanText

TalliedAs(reason) == { i \in DOMAIN tally : tally[i] = reason }

EarliestRow(k) == CHOOSE i \in 1..Len(df) : df[i].cid = k /\ \A j \in 1..(i - 1) : df[j].cid # k

\* C1: during and after the order pass, the three skip tallies plus the size of
\* order_map equal the number of source rows handled; at the end, all source rows.
C1_TallySum ==
    /\ InOrderPass => SkipTotal + Cardinality(DOMAIN order_map) = idx - 1
    /\ OrdersReturned => SkipTotal + Cardinality(DOMAIN order_map) = Len(df)

C1_Witness ==
    /\ OrdersReturned
    /\ skipped.error > 0
    /\ skipped.no_customer + skipped.no_product > 0
    /\ DOMAIN order_map # {}

\* C2: after import_orders a row position is in order_map exactly when its customer id
\* is a key of customer_map, its trimmed product name is a key of product_map and the
\* sink did not reject its insert, whatever key values the sink assigned.
C2_OrderIffResolved ==
    OrdersReturned =>
        \A i \in 1..Len(df) :
            i \in DOMAIN order_map <=>
                (CustomerResolves(df[i]) /\ ProductResolves(df[i]) /\ tally[i] # "error")

\* C3: a shipping insert is issued only for a position in order_map and carries the
\* mapped key; no shipping row has a null or unmapped order reference; every handled
\* position is either inserted or counted as skipped.
C3_ShippingOnlyMapped ==
    /\ lastInsert.tbl = "shipping_details" =>
          /\ lastInsert.pos \in DOMAIN order_map
          /\ lastInsert.refs = << <<order_map[lastInsert.pos]>> >>
    /\ \A r \in db.committed \cup db.pending :
          r.tbl = "shipping_details" =>
              /\ r.refs[1] # <<>>
              /\ \E i \in DOMAIN order_map : order_map[i] = r.refs[1][1]
    /\ (call = "import_shipping" /\ at = "loop") =>
          /\ processed + ship_skipped = idx - 1
          /\ ship_skipped >= Cardinality({ i \in 1..(idx - 1) : i \notin DOMAIN order_map })

C3_Witness ==
    /\ call = "verify_import"
    /\ ship_skipped > 0
    /\ \E i \in 1..Len(df) : i \notin DOMAIN order_map
    /\ \E r \in db.committed : r.tbl = "shipping_details"

\* C4: every canonical customer takes its fields from the earliest source row of its id.
C4_FirstRowWins ==
    \A n \in 1..Len(customers_unique) :
        customers_unique[n].email = df[EarliestRow(customers_unique[n].cid)].email

\* C5: every key an order or shipping insert uses as a foreign key names a committed
\* row, and no committed row references a row that is not committed.
C5_ForeignKeysCommitted ==
    /\ lastInsert.tbl \in {"orders", "shipping_details"} =>
          \A j \in 1..Len(lastInsert.refs) :
              /\ lastInsert.refs[j] # <<>>
              /\ RowExists(db.committed, RefTables(lastInsert.tbl)[j], lastInsert.refs[j][1])
    /\ \A r \in db.committed :
          \A j \in 1..Len(r.refs) :
              RowExists(db.committed, RefTables(r.tbl)[j], r.refs[j][1])

\* C6: a failure on one row never makes a loader abandon its pass, and a rejected
\* order insert is counted under skipped.error.
C6_RowFailureNeverAborts ==
    /\ at # "raised"
    /\ InOrderPass => skipped.error = Cardinality(TalliedAs("error"))

\* C7: an absent, blank or placeholder product name never becomes a key of product_map,
\* and no order row carrying one is inserted or mapped.
C7_UnusableNamesExcluded ==
    /\ \A i \in 1..Len(df) :
          UnusableName(df[i].pname) =>
              /\ Strip(Str(df[i].pname)) \notin DOMAIN product_map
              /\ i \notin DOMAIN order_map
              /\ i \in DOMAIN tally => tally[i] \in {"no_customer", "no_product"}
    /\ DOMAIN product_map \cap {<<>>, NanText, NaN} = {}
    /\ lastInsert.tbl = "orders" => ~UnusableName(df[lastInsert.pos].pname)

C7_Witness ==
    /\ OrdersReturned
    /\ DOMAIN product_map # {}
    /\ \E i \in 1..Len(df) :
          UnusableName(df[i].pname) /\ CustomerResolves(df[i]) /\ tally[i] = "no_product"

\* the tallying half of C8: the customer test decides first
C8_CustomerDecidesFirst ==
    /\ \A i \in DOMAIN tally :
          /\ ~CustomerResolves(df[i]) => tally[i] = "no_customer"
          /\ tally[i] = "no_product" => CustomerResolves(df[i])
    /\ InOrderPass \/ OrdersReturned =>
          /\ skipped.no_customer = Cardinality(TalliedAs("no_customer"))
          /\ skipped.no_product = Cardinality(TalliedAs("no_product"))

\* C8 as stated: the customer test decides first, and a row whose customer does not
\* resolve is abandoned before product_map is consulted for it.
C8_AbandonedBeforeProductLookup ==
    /\ C8_CustomerDecidesFirst
    /\ \A i \in TalliedAs("no_customer") : i \notin lookups.product

\* C8 amended: both maps are consulted for every row before either result is tested;
\* the customer result is tested first, so a row whose customer does not resolve is
\* tallied under no_customer only and no_product is tallied only for rows whose
\* customer resolved.
C8_BothLookedUpCustomerDecidesFirst ==
    /\ C8_CustomerDecidesFirst
    /\ lookups.product = lookups.customer
    /\ DOMAIN tally \subseteq lookups.product
    /\ (call = "import_orders" /\ at = "check") => idx \in lookups.product

C8_Witness ==
    /\ OrdersReturned
    /\ \E i \in TalliedAs("no_customer") :
          ~CustomerResolves(df[i]) /\ ~ProductResolves(df[i]) /\ i \in lookups.product
    /\ TalliedAs("no_product") # {}

PhaseOrder ==
    <<"connect_database", "load_csv", "import_customers", "import_products",
      "import_orders", "import_shipping", "verify_import">>

Entered(p) == \E i \in 1..Len(phaseLog) : phaseLog[i] = p

\* C9: the methods are entered in the fixed order, none twice; import_orders is entered
\* only after customer_map and product_map were returned, import_shipping only after
\* order_map was returned.
C9_PhaseOrder ==
    /\ Len(phaseLog) <= Len(PhaseOrder)
    /\ phaseLog = SubSeq(PhaseOrder, 1, Len(phaseLog))
    /\ Entered("import_orders") => {"customer_map", "product_map"} \subseteq returned
    /\ Entered("import_shipping") => "order_map" \in returned

C9_Witness ==
    /\ call = "closed"
    /\ phaseLog = PhaseOrder
    /\ skipped.error > 0
    /\ ship_skipped > 0

\* C10: during the order pass at most batch_size successful inserts are uncommitted,
\* and after the final commit every successful insert is committed.
C10_BatchCommit ==
    /\ InOrderPass =>
          Cardinality({ i \in DOMAIN order_map :
                          ~RowExists(db.committed, "orders", order_map[i]) }) <= batch_size
    /\ OrdersReturned =>
          \A i \in DOMAIN order_map : RowExists(db.committed, "orders", order_map[i])

====
